---- MODULE Spec2Model ----
(***************************************************************************)
(* Model of deeppavlov/models/kbqa/kg_dial_generator.py:                   *)
(*   DialPathRanker.__call__   (lines 100-190)                             *)
(*   KGDialGenerator.__call__  (lines 48-74)                               *)
(*                                                                         *)
(* Confidences are fixed-point numbers in thousandths (0.4 is 400).        *)
(* Python lists are sequences, Python sets are sets, a JSON table is a     *)
(* function whose DOMAIN is the set of keys present in the file.           *)
(***************************************************************************)
EXTENDS Integers, Sequences, FiniteSets, TLC

VARIABLES
    \* DialPathRanker configuration and tables (set by __init__)
    use_path_stat, use_api_requester, type_paths, type_groups, rel_freq,
    \* DialPathRanker.__call__ arguments
    utterances_batch, entities_batch,
    \* DialPathRanker.__call__ locals
    idx, entity, entity_types, scored_paths, candidate_paths, subclasses, top_paths,
    retrieved_paths, retrieved_rels, conf,
    \* DialPathRanker.__call__ results and control
    paths_batch, conf_batch, pc, exc,
    \* KGDialGenerator.__call__ arguments, locals, results and control
    prev_utterances_batch, triplets_batch, gen_conf_batch, gen_idx,
    generated_utterances_batch, generate_calls, gen_pc

rankerVars == <<use_path_stat, use_api_requester, type_paths, type_groups, rel_freq,
                utterances_batch, entities_batch, idx, entity, entity_types,
                scored_paths, candidate_paths, subclasses, top_paths, retrieved_paths,
                retrieved_rels, conf, paths_batch, conf_batch, pc, exc>>

\* What __call__ only reads: the configuration, the tables and its arguments
rankerConfig == <<use_path_stat, use_api_requester, type_paths, type_groups, rel_freq,
                  utterances_batch, entities_batch>>

genVars == <<prev_utterances_batch, triplets_batch, gen_conf_batch, gen_idx,
             generated_utterances_batch, generate_calls, gen_pc>>

vars == <<rankerVars, genVars>>

----------------------------------------------------------------------------
(* Bounds of the model *)

MaxBatch == 2

MaxEntries == 1

MaxScore == 2

MaxFreq == 5000

(* Program constants *)

\* max_log_freq: float = 8.0
max_log_freq == 8

\* conf_thres: float = 0.3, in thousandths
conf_thres == 300

\* conf_batch.append(0.0), in thousandths
NoPathConf == 0

\* A ranker that gives an item without entities the confidence of an item without paths
NoEntityConfAsNoPath == NoPathConf

\* conf_batch.append(0.4), in thousandths
NoEntityConf == 400

----------------------------------------------------------------------------
(* Value universes *)

Entities == {"Q1", "Q2"}

Types == {"T1", "T2"}

ClassIds == {"C1"}

Rels == {"P1", "P2"}

Utterances == {"u1"}

\* Path: ordered sequence of relation ids, one or more hops
PathPool == {<<"P1">>, <<"P1", "P2">>}

Scores == 1..MaxScore

FreqVals == {0, 1, MaxFreq}

\* A JSON object with keys among K and values among V
Tables(K, V) == UNION {[D -> V] : D \in SUBSET K}

\* dict.get(key, default)
Get(table, key, default) == IF key \in DOMAIN table THEN table[key] ELSE default

Range(s) == {s[k] : k \in DOMAIN s}

\* All orders in which the elements of a finite set can be listed: list(set)
Perms(S) ==
    {s \in [1..Cardinality(S) -> S] : \A a, b \in 1..Cardinality(S) : a # b => s[a] # s[b]}

----------------------------------------------------------------------------
(* Pure helpers of DialPathRanker.__call__ *)

\* entity = entities_list[0]; if isinstance(entity, list): entity = entity[0]
SeedEntity(entities_list) ==
    IF entities_list[1].isList THEN entities_list[1].items[1] ELSE entities_list[1].id

\* The union over the entity types of the (path, score) entries of type_paths:
\* set([tuple([tuple(path), score]) for path, score in self.type_paths.get(entity_type, set())])
CandidatePairs(types) == UNION {Get(type_paths, t, {}) : t \in types}

\* A sort without reverse=True
SortedAscending(pairs) ==
    {s \in Perms(pairs) : \A a, b \in DOMAIN s : a < b => s[a][2] <= s[b][2]}

\* sorted(list(candidate_paths), key=lambda x: x[1], reverse=True): the listings of a
\* set of (path, score) pairs in non-increasing score order (list(set) fixes no order
\* among equal scores)
SortedByScore(pairs) ==
    {s \in Perms(pairs) : \A a, b \in DOMAIN s : a < b => s[a][2] >= s[b][2]}

\* [path for path, score in candidate_paths]
PathsOf(scored) == [k \in DOMAIN scored |-> scored[k][1]]

\* Ranking mode: the set of tuple(path), later listed by list(candidate_paths)
CandidatePathSet(types) == {pr[1] : pr \in CandidatePairs(types)}

\* itertools.chain.from_iterable(subclasses)
RECURSIVE Chain(_)
Chain(lists) == IF lists = <<>> THEN <<>> ELSE Head(lists) \o Chain(Tail(lists))

\* Lines 135-136: entity_types.intersection(set(self.type_groups.get(subcls, [])))
GroupIntersects(types, subcls) == types \cap Get(type_groups, subcls, {}) # {}

\* Line 136 is true for some subclass, so line 137 is evaluated: it reads
\* subclass_groups, a name bound nowhere in the module (NameError)
FallbackRaises(types, classes) == \E k \in DOMAIN classes : GroupIntersects(types, classes[k])

\* The types over which lines 138-148 rebuild the candidates: for entity_type in entity_types
FallbackTypes(types, classes) == types

\* sum([self.rel_freq.get(rel, [0])[0] for rel in chosen_rels])
RECURSIVE SumFreq(_)
SumFreq(rels) ==
    IF rels = <<>> THEN 0 ELSE Get(rel_freq, Head(rels), 0) + SumFreq(Tail(rels))

RECURSIVE FloorLog2(_)
FloorLog2(n) == IF n < 2 THEN 0 ELSE 1 + FloorLog2(n \div 2)

RECURSIVE Pow2(_)
Pow2(k) == IF k = 0 THEN 1 ELSE 2 * Pow2(k - 1)

\* The fractional bits of log2 of a mantissa m/16384 in [1, 2), by repeated squaring
RECURSIVE FracLog2(_, _)
FracLog2(m, bits) ==
    IF bits = 0 THEN 0
    ELSE LET sq == (m * m) \div 16384
         IN  IF sq >= 32768 THEN Pow2(bits - 1) + FracLog2(sq \div 2, bits - 1)
             ELSE FracLog2(sq, bits - 1)

\* math.log(n) for an integer n >= 1, in thousandths (ln 2 = 0.693)
LnMilli(n) ==
    LET k == FloorLog2(n)
        m == (n * 16384) \div Pow2(k)
    IN  ((k * 1024 + FracLog2(m, 10)) * 693) \div 1024

\* math.log(total / count) raises ValueError when total / count is 0.0
LogRaises(rels) == SumFreq(rels) = 0

\* min(math.log(total / count) / self.max_log_freq, 1.0) * 0.9, in thousandths
Confidence(rels) ==
    LET lnAvg  == LnMilli(SumFreq(rels)) - LnMilli(Len(rels))
        scaled == lnAvg \div max_log_freq
        capped == IF scaled < 1000 THEN scaled ELSE 1000
    IN  (capped * 9) \div 10

(* External collaborators of DialPathRanker *)

\* wiki_parser answers a batch of queries with a list of results; with the API
\* requester every result carries one more list layer
WikiParserReply(result) == IF use_api_requester THEN <<<<result>>>> ELSE <<result>>

\* wiki_parser(["find_types"], [entity]): the types of the entity
FindTypesResults == SUBSET Types

\* wiki_parser(["find_object", ...], [(entity_type, "P279", "forw"), ...]): one
\* list of class ids per query
FindObjectResults(types) == [1..Cardinality(types) -> {<<>>} \cup {<<c>> : c \in ClassIds}]

\* A path materialized in the graph for an entity
Materialize(e, path) == [k \in DOMAIN path |-> <<e, path[k]>>]

\* wiki_parser(["retrieve_paths"], [[entity, top_paths]]) for a graph in which the
\* paths of inGraph exist from the entity: the paths found, in the order asked,
\* and the relation sequence of each
RetrievePaths(e, paths, inGraph) ==
    LET found == SelectSeq(paths, LAMBDA p : p \in inGraph)
    IN  <<[k \in DOMAIN found |-> Materialize(e, found[k])], found>>

\* path_ranker.rank_paths(utterance, candidate_paths): the candidates with scores,
\* ordered by relevance; top_paths is its path components
RankPathsResults(utterance, candidates) == Perms(Range(candidates))

----------------------------------------------------------------------------
(* DialPathRanker: the state after __init__ and the arguments of __call__ *)

Plain(e) == [isList |-> FALSE, id |-> e, items |-> <<>>]

Nested(es) == [isList |-> TRUE, id |-> "", items |-> es]

\* An item's entity list: empty, entity ids, or nested lists of entity ids
EntityLists == {<<>>, <<Plain("Q1"), Plain("Q2")>>, <<Nested(<<"Q2", "Q1">>)>>}

\* The entries a type can have in type_paths: at most MaxEntries (path, score) pairs
EntrySets == {S \in SUBSET (PathPool \X Scores) : S # {} /\ Cardinality(S) <= MaxEntries}

GroupSets == (SUBSET Types) \ {{}}

BatchLens == 1..MaxBatch

RankerIdle ==
    /\ idx = 0
    /\ entity = ""
    /\ entity_types = {}
    /\ scored_paths = <<>>
    /\ candidate_paths = <<>>
    /\ subclasses = <<>>
    /\ top_paths = <<>>
    /\ retrieved_paths = <<>>
    /\ retrieved_rels = <<>>
    /\ conf = 0
    /\ paths_batch = <<>>
    /\ conf_batch = <<>>
    /\ exc = "none"

GenIdle ==
    /\ gen_idx = 0
    /\ generated_utterances_batch = <<>>
    /\ generate_calls = <<>>

RankerInit ==
    /\ use_path_stat \in BOOLEAN
    /\ use_api_requester \in BOOLEAN
    /\ type_paths \in Tables(Types, EntrySets)
    /\ type_groups \in Tables(ClassIds, GroupSets)
    /\ rel_freq \in Tables(Rels, FreqVals)
    /\ \E n \in BatchLens :
          /\ utterances_batch \in [1..n -> Utterances]
          /\ entities_batch \in [1..n -> EntityLists]
    /\ RankerIdle
    /\ pc = "loop"

Init ==
    /\ RankerInit
    /\ prev_utterances_batch = <<>>
    /\ triplets_batch = <<>>
    /\ gen_conf_batch = <<>>
    /\ GenIdle
    /\ gen_pc = "idle"

----------------------------------------------------------------------------
(* DialPathRanker.__call__, one action per step of the loop body *)

\* Lines 104-105, 184-186: the item has no entities
NoEntities ==
    /\ pc = "loop"
    /\ idx < Len(entities_batch)
    /\ entities_batch[idx + 1] = <<>>
    /\ paths_batch' = Append(paths_batch, <<>>)
    /\ conf_batch' = Append(conf_batch, NoEntityConf)
    /\ idx' = idx + 1
    /\ UNCHANGED <<entity, entity_types, scored_paths, candidate_paths, subclasses, top_paths,
                   retrieved_paths, retrieved_rels, conf, pc, exc>>
    /\ UNCHANGED <<rankerConfig, genVars>>

\* Lines 104-126: seed entity, its types, the candidate paths of these types
FindCandidates ==
    /\ pc = "loop"
    /\ idx < Len(entities_batch)
    /\ entities_batch[idx + 1] # <<>>
    /\ entity' = SeedEntity(entities_batch[idx + 1])
    /\ \E result \in FindTypesResults :
          LET reply == WikiParserReply(result)
              types == IF use_api_requester THEN reply[1][1] ELSE reply[1]
          IN  /\ entity_types' = types
              /\ IF use_path_stat
                 THEN /\ scored_paths' \in SortedByScore(CandidatePairs(types))
                      /\ candidate_paths' = PathsOf(scored_paths')
                 ELSE /\ scored_paths' = <<>>
                      /\ candidate_paths' \in Perms(CandidatePathSet(types))
    /\ pc' = IF candidate_paths' = <<>> THEN "fallback" ELSE "rank"
    /\ UNCHANGED <<idx, subclasses, top_paths, retrieved_paths, retrieved_rels, conf,
                   paths_batch, conf_batch, exc>>
    /\ UNCHANGED <<rankerConfig, genVars>>

\* Lines 127-148: no candidates, look at the groups of the types' superclasses
Fallback ==
    /\ pc = "fallback"
    /\ \E result \in FindObjectResults(entity_types) :
          /\ subclasses' = Chain(result)
          /\ IF FallbackRaises(entity_types, subclasses')
             THEN /\ pc' = "raised"
                  /\ exc' = "NameError"
                  /\ scored_paths' = scored_paths
                  /\ candidate_paths' = <<>>
             ELSE LET types == FallbackTypes(entity_types, subclasses')
                  IN  /\ IF use_path_stat
                         THEN /\ scored_paths' \in SortedByScore(CandidatePairs(types))
                              /\ candidate_paths' = PathsOf(scored_paths')
                         ELSE /\ scored_paths' = <<>>
                              /\ candidate_paths' \in Perms(CandidatePathSet(types))
                      /\ pc' = "rank"
                      /\ exc' = exc
    /\ UNCHANGED <<idx, entity, entity_types, top_paths, retrieved_paths,
                   retrieved_rels, conf, paths_batch, conf_batch>>
    /\ UNCHANGED <<rankerConfig, genVars>>

\* Lines 150-162 without the reset of retrieved_paths and conf at lines 153-154
RankNoReset ==
    /\ pc = "rank"
    /\ IF candidate_paths # <<>>
       THEN /\ IF use_path_stat
               THEN top_paths' = candidate_paths
               ELSE top_paths' \in RankPathsResults(utterances_batch[idx + 1], candidate_paths)
            /\ pc' = "retrieve"
       ELSE /\ top_paths' = top_paths
            /\ pc' = "emit"
    /\ UNCHANGED <<idx, entity, entity_types, scored_paths, candidate_paths, subclasses,
                   retrieved_paths, retrieved_rels, conf, paths_batch, conf_batch, exc>>
    /\ UNCHANGED <<rankerConfig, genVars>>

\* Lines 150-162: the top paths, from the statistics or from the path ranker
Rank ==
    /\ pc = "rank"
    /\ retrieved_paths' = <<>>
    /\ conf' = 0
    /\ IF candidate_paths # <<>>
       THEN /\ IF use_path_stat
               THEN top_paths' = candidate_paths
               ELSE top_paths' \in RankPathsResults(utterances_batch[idx + 1], candidate_paths)
            /\ pc' = "retrieve"
       ELSE /\ top_paths' = top_paths
            /\ pc' = "emit"
    /\ UNCHANGED <<idx, entity, entity_types, scored_paths, candidate_paths, subclasses,
                   retrieved_rels, paths_batch, conf_batch, exc>>
    /\ UNCHANGED <<rankerConfig, genVars>>

\* Lines 163-171: the paths the graph holds for the seed entity
Retrieve ==
    /\ pc = "retrieve"
    /\ \E inGraph \in SUBSET PathPool :
          LET reply  == WikiParserReply(RetrievePaths(entity, top_paths, inGraph))
              wp_res == IF use_api_requester THEN reply[1][1] ELSE reply[1]
          IN  /\ retrieved_paths' = wp_res[1]
              /\ retrieved_rels' = wp_res[2]
    /\ pc' = IF retrieved_paths' # <<>> THEN "score" ELSE "emit"
    /\ UNCHANGED <<idx, entity, entity_types, scored_paths, candidate_paths, subclasses, top_paths,
                   conf, paths_batch, conf_batch, exc>>
    /\ UNCHANGED <<rankerConfig, genVars>>

\* Lines 172-176: the confidence of the first retrieved path
Score ==
    /\ pc = "score"
    /\ LET chosen_rels == retrieved_rels[1]
       IN  IF LogRaises(chosen_rels)
           THEN /\ pc' = "raised"
                /\ exc' = "ValueError"
                /\ conf' = conf
           ELSE /\ pc' = "emit"
                /\ exc' = exc
                /\ conf' = Confidence(chosen_rels)
    /\ UNCHANGED <<idx, entity, entity_types, scored_paths, candidate_paths, subclasses, top_paths,
                   retrieved_paths, retrieved_rels, paths_batch, conf_batch>>
    /\ UNCHANGED <<rankerConfig, genVars>>

\* A ranker that outputs its first top path instead of the first retrieved one
EmittedTopCandidate == Materialize(entity, top_paths[1])

\* The path appended at line 179
EmittedPath == retrieved_paths[1]

\* Lines 178-183: the item's output
Emit ==
    /\ pc = "emit"
    /\ IF retrieved_paths # <<>>
       THEN /\ paths_batch' = Append(paths_batch, EmittedPath)
            /\ conf_batch' = Append(conf_batch, conf)
       ELSE /\ paths_batch' = Append(paths_batch, <<>>)
            /\ conf_batch' = Append(conf_batch, NoPathConf)
    /\ idx' = idx + 1
    /\ pc' = "loop"
    /\ UNCHANGED <<entity, entity_types, scored_paths, candidate_paths, subclasses, top_paths,
                   retrieved_paths, retrieved_rels, conf, exc>>
    /\ UNCHANGED <<rankerConfig, genVars>>

\* Lines 187-190: the batch is exhausted
Return ==
    /\ pc = "loop"
    /\ idx = Len(entities_batch)
    /\ pc' = "done"
    /\ UNCHANGED <<idx, entity, entity_types, scored_paths, candidate_paths, subclasses, top_paths,
                   retrieved_paths, retrieved_rels, conf, paths_batch, conf_batch, exc>>
    /\ UNCHANGED <<rankerConfig, genVars>>

Next ==
    \/ NoEntities
    \/ FindCandidates
    \/ Fallback
    \/ Rank
    \/ Retrieve
    \/ Score
    \/ Emit
    \/ Return

Spec == Init /\ [][Next]_vars

----------------------------------------------------------------------------
(* KGDialGenerator.__call__ *)

TripletLists == {<<>>, <<"t1", "t2">>}

\* Confidences around the threshold, and the ranker's no-entity prior
GenConfs == {0, conf_thres - 1, conf_thres, conf_thres + 1, NoEntityConf}

\* What tokenizer.decode can give back for a generation
GeneratedTexts == {"", "reply"}

\* A generator that also generates at the threshold
ShouldGenerateInclusive(c) == c >= conf_thres

\* Line 54: if conf > self.conf_thres
ShouldGenerate(c) == c > conf_thres

\* Lines 55-59: context_plus_gk, as the sequence of its parts (' '.join(triplets)
\* keeps the triplets in order)
ContextPlusGk(prev_utterance, triplets) ==
    IF triplets # <<>>
    THEN triplets \o <<"<SEP>", prev_utterance, "<eos>">>
    ELSE <<prev_utterance, "<eos>">>

GenInit ==
    /\ use_path_stat = FALSE
    /\ use_api_requester = FALSE
    /\ type_paths = <<>>
    /\ type_groups = <<>>
    /\ rel_freq = <<>>
    /\ utterances_batch = <<>>
    /\ entities_batch = <<>>
    /\ RankerIdle
    /\ pc = "done"
    /\ \E n \in BatchLens :
          /\ prev_utterances_batch \in [1..n -> Utterances]
          /\ triplets_batch \in [1..n -> TripletLists]
          /\ gen_conf_batch \in [1..n -> GenConfs]
    /\ GenIdle
    /\ gen_pc = "loop"

\* Lines 52-54, 68-70: the confidence does not exceed the threshold
GenSkip ==
    /\ gen_pc = "loop"
    /\ gen_idx < Len(gen_conf_batch)
    /\ ~ShouldGenerate(gen_conf_batch[gen_idx + 1])
    /\ generated_utterances_batch' = Append(generated_utterances_batch, "")
    /\ gen_idx' = gen_idx + 1
    /\ UNCHANGED <<prev_utterances_batch, triplets_batch, gen_conf_batch, generate_calls, gen_pc>>
    /\ UNCHANGED rankerVars

\* Lines 52-67, 70: the model generates from the context
GenGenerate ==
    /\ gen_pc = "loop"
    /\ gen_idx < Len(gen_conf_batch)
    /\ ShouldGenerate(gen_conf_batch[gen_idx + 1])
    /\ generate_calls' = Append(generate_calls,
          [pos |-> gen_idx + 1,
           input |-> ContextPlusGk(prev_utterances_batch[gen_idx + 1],
                                   triplets_batch[gen_idx + 1])])
    /\ \E generated_utterance \in GeneratedTexts :
          generated_utterances_batch' = Append(generated_utterances_batch, generated_utterance)
    /\ gen_idx' = gen_idx + 1
    /\ UNCHANGED <<prev_utterances_batch, triplets_batch, gen_conf_batch, gen_pc>>
    /\ UNCHANGED rankerVars

\* Lines 71-74
GenReturn ==
    /\ gen_pc = "loop"
    /\ gen_idx = Len(gen_conf_batch)
    /\ gen_pc' = "done"
    /\ UNCHANGED <<prev_utterances_batch, triplets_batch, gen_conf_batch, gen_idx,
                   generated_utterances_batch, generate_calls>>
    /\ UNCHANGED rankerVars

GenNext ==
    \/ GenSkip
    \/ GenGenerate
    \/ GenReturn

GenSpec == GenInit /\ [][GenNext]_vars

----------------------------------------------------------------------------
(* The claims *)

\* The last item processed had entities: the locals are those of item idx
LastItemHadEntities ==
    /\ pc \in {"loop", "done"}
    /\ idx >= 1
    /\ entities_batch[idx] # <<>>

\* C1: every item whose entity list is empty has the output (empty path, 0.4) at
\* its own position, and the two output lists grow together, one entry per item
C1_EmptyEntitiesPrior ==
    /\ Len(paths_batch) = idx
    /\ Len(conf_batch) = idx
    /\ \A k \in 1..Len(paths_batch) :
          entities_batch[k] = <<>> => paths_batch[k] = <<>> /\ conf_batch[k] = 400

\* C1 witness: a returned batch whose second item has no entities and whose first
\* item got a path, in statistic mode with the API requester
C1_Witness ==
    /\ pc = "done"
    /\ Len(entities_batch) = 2
    /\ entities_batch[1] # <<>>
    /\ paths_batch[1] # <<>>
    /\ entities_batch[2] = <<>>
    /\ use_path_stat
    /\ use_api_requester

\* C2: an item with entities whose candidate list is empty after the fallback
\* step has the output (empty path, 0.0)
C2_NoCandidatesOutput ==
    (LastItemHadEntities /\ candidate_paths = <<>>)
        => (paths_batch[idx] = <<>> /\ conf_batch[idx] = 0)

\* C2 witness: the second item's types had superclasses, no group intersected, the
\* candidates stayed empty, and the first item had got a path
C2_Witness ==
    /\ LastItemHadEntities
    /\ idx = 2
    /\ candidate_paths = <<>>
    /\ entity_types # {}
    /\ subclasses # <<>>
    /\ paths_batch[1] # <<>>
    /\ paths_batch[2] = <<>>

\* C3: the confidence returned for an item with entities lies in [0.0, 1.0]
C3_ConfidenceInUnitInterval ==
    pc = "done" =>
        \A k \in 1..Len(conf_batch) :
            entities_batch[k] # <<>> => (0 <= conf_batch[k] /\ conf_batch[k] <= 1000)

\* C4: when the relations of the chosen path have a frequency sum of 0, scoring
\* does not raise and the confidence is 0.0
C4_ZeroFrequencyHandled ==
    (/\ pc \in {"emit", "raised"}
     /\ retrieved_paths # <<>>
     /\ SumFreq(retrieved_rels[1]) = 0)
        => (pc = "emit" /\ conf = 0)

\* C5: the fallback step never raises, whatever the superclasses and the groups
C5_FallbackNeverRaises == ~(pc = "raised" /\ exc = "NameError")

\* The types line 137 is written to add: those of the intersecting groups that
\* the entity does not have
AddedTypes(types, classes) ==
    UNION {Get(type_groups, classes[k], {}) \ types :
              k \in {j \in DOMAIN classes : GroupIntersects(types, classes[j])}}

\* C6: a non-empty output path is the first path the graph service returned for
\* the item's seed entity
C6_OutputIsRetrievedPath ==
    /\ \A k \in 1..Len(paths_batch) :
          paths_batch[k] # <<>> =>
              /\ entities_batch[k] # <<>>
              /\ \A h \in DOMAIN paths_batch[k] :
                    paths_batch[k][h][1] = SeedEntity(entities_batch[k])
    /\ (LastItemHadEntities /\ paths_batch[idx] # <<>>) =>
          /\ retrieved_paths # <<>>
          /\ paths_batch[idx] = retrieved_paths[1]

\* C6 witness: ranking mode, two top paths, the graph held only the second, which
\* is the output
C6_Witness ==
    /\ LastItemHadEntities
    /\ ~use_path_stat
    /\ Len(top_paths) = 2
    /\ retrieved_rels = <<top_paths[2]>>
    /\ paths_batch[idx] = Materialize(entity, top_paths[2])

\* C7 as claimed: in statistic mode the relation path of the output has the
\* highest score of the type path table over the seed entity's types
C7_OutputHasHighestScore ==
    (use_path_stat /\ LastItemHadEntities /\ paths_batch[idx] # <<>>) =>
        \E pr \in CandidatePairs(entity_types) :
            /\ pr[1] = retrieved_rels[1]
            /\ \A q \in CandidatePairs(entity_types) : q[2] <= pr[2]

\* C7 as amended: in statistic mode the candidates are the table's (path, score)
\* entries of the seed entity's types, listed in non-increasing score order with
\* the table's scores, and handed to retrieval in that order; the output is the
\* first of them the graph service returned, so no returned candidate has a
\* higher score
C7_SortedHandOver ==
    use_path_stat =>
        /\ pc \in {"rank", "retrieve", "score", "emit"} =>
              /\ Range(scored_paths) = CandidatePairs(entity_types)
              /\ Len(scored_paths) = Cardinality(CandidatePairs(entity_types))
              /\ \A a, b \in DOMAIN scored_paths :
                    a < b => scored_paths[a][2] >= scored_paths[b][2]
              /\ candidate_paths = PathsOf(scored_paths)
        /\ pc \in {"retrieve", "score"} => top_paths = candidate_paths
        /\ (LastItemHadEntities /\ paths_batch[idx] # <<>>) =>
              \E k \in DOMAIN scored_paths :
                  /\ scored_paths[k][1] = retrieved_rels[1]
                  /\ \A j \in DOMAIN scored_paths :
                        scored_paths[j][1] \in Range(retrieved_rels)
                            => scored_paths[j][2] <= scored_paths[k][2]

\* C7 witness: statistic mode, two candidates of different score, the graph held
\* only the lower one, which is the output
C7_Witness ==
    /\ use_path_stat
    /\ LastItemHadEntities
    /\ Len(scored_paths) = 2
    /\ scored_paths[1][2] > scored_paths[2][2]
    /\ scored_paths[1][1] # scored_paths[2][1]
    /\ retrieved_rels = <<scored_paths[2][1]>>
    /\ paths_batch[idx] = Materialize(entity, scored_paths[2][1])

\* C9: when a superclass's group intersects the seed entity's types, the fallback
\* step rebuilds the candidates from the type path table over the types
\* enlarged by the group's other types
C9_FallbackUsesMergedTypes ==
    [][(pc = "fallback" /\ FallbackRaises(entity_types, subclasses'))
          => /\ pc' = "rank"
             /\ Range(candidate_paths') =
                    CandidatePathSet(entity_types \cup AddedTypes(entity_types, subclasses'))]_vars

\* C10: the candidate list handed to ranking or retrieval holds no path twice
C10_NoDuplicateCandidates ==
    pc \in {"rank", "retrieve"} =>
        \A a, b \in DOMAIN candidate_paths :
            a # b => candidate_paths[a] # candidate_paths[b]

\* C8: an item whose confidence does not exceed conf_thres gets the empty
\* utterance and no call of the model; every call of the model is for an item
\* whose confidence exceeds conf_thres
C8_ThresholdGate ==
    /\ Len(generated_utterances_batch) = gen_idx
    /\ \A k \in 1..Len(generated_utterances_batch) :
          gen_conf_batch[k] <= conf_thres =>
              /\ generated_utterances_batch[k] = ""
              /\ \A c \in DOMAIN generate_calls : generate_calls[c].pos # k
    /\ \A c \in DOMAIN generate_calls :
          gen_conf_batch[generate_calls[c].pos] > conf_thres

\* C8 witness: a returned batch with one item at the threshold, left empty, and
\* one just above it, generated by the one call of the model
C8_Witness ==
    /\ gen_pc = "done"
    /\ Len(gen_conf_batch) = 2
    /\ gen_conf_batch[1] = conf_thres
    /\ gen_conf_batch[2] = conf_thres + 1
    /\ generated_utterances_batch = <<"", "reply">>
    /\ Len(generate_calls) = 1
    /\ generate_calls[1].pos = 2

====
